---------------------------- MODULE Spec2Model ----------------------------
(* Leave-one-year-out cross-validation of the GloFAS bias correction         *)
(* (scripts/cv_glofas.py): read_station_data, loocv_splits,                  *)
(* calculate_metrics, process_station and the cv_glofas worker pool; the     *)
(* alignment of the observed and simulated tables at the level of dates     *)
(* (read_station_data_cv); and the seasonal correction (correct_station,    *)
(* save_dqm_model, load_dqm_model, correct_new_data).                       *)
(*                                                                           *)
(* A table is a sequence of runs of rows: a run [year, month, obs, sim, n]   *)
(* stands for n rows of that year and month holding those values. Discharge  *)
(* values are integers counting hundredths of m3/s, so epsilon = 0.01 is 1.  *)
EXTENDS Integers, Sequences, FiniteSets, TLC

(* ------------------------------ bounds ---------------------------------- *)
\* years of the input window; the last one lies after the analysis range
NumYears == 4
\* candidate quantile counts handed to process_station
MaxQuantiles == 2
\* gauges of a batch run
MaxStations == 2
\* processors the executor may see
MaxCpu == 2

(* ------------------------- program constants ---------------------------- *)
YearStart == 1979
YearEnd == 1996
MonthStart == 5
MonthEnd == 10
Epsilon == 1
MinYearCount == 90
MinPairs == 10

DefaultQuantiles == <<1, 5, 10, 15, 20, 25, 30, 35, 40, 45, 50>>
DefaultStations == <<1496, 1497, 1499, 1502, 1504, 1508, 1587>>

(* --------------------------- table helpers ------------------------------ *)
RECURSIVE RowCount(_)
\* len(df): the number of rows of a table
RowCount(rows) ==
    IF rows = <<>> THEN 0 ELSE Head(rows).n + RowCount(Tail(rows))

\* df[df["year"].isin(years)]
RowsOfYears(rows, years) == SelectSeq(rows, LAMBDA g : g.year \in years)

YearsIn(rows) == {rows[i].year : i \in 1..Len(rows)}

RECURSIVE Sorted(_)
\* sorted(...) of a set of years
Sorted(S) ==
    IF S = {} THEN <<>>
    ELSE LET m == CHOOSE x \in S : \A y \in S : x <= y
         IN <<m>> \o Sorted(S \ {m})

(* --------------------------- read_station_data --------------------------- *)
\* the year and month filter, then the epsilon floor, on the joined table
read_station_data(merged) ==
    LET kept == SelectSeq(merged, LAMBDA g :
                    /\ g.year >= YearStart
                    /\ g.year <= YearEnd
                    /\ g.month >= MonthStart /\ g.month <= MonthEnd)
    IN [i \in 1..Len(kept) |->
           [kept[i] EXCEPT !.obs = @ + Epsilon, !.sim = @ + Epsilon]]

(* ------------------------------ loocv_splits ----------------------------- *)
\* data.groupby("year")["obs"].count() for one year
year_counts(data, y) == RowCount(RowsOfYears(data, {y}))

\* the threshold taken as "at least 90"
valid_years_ge(data) ==
    Sorted({y \in YearsIn(data) : year_counts(data, y) >= MinYearCount})

valid_years(data) ==
    Sorted({y \in YearsIn(data) : year_counts(data, y) > MinYearCount})

\* the test year left among the training years
train_years_all(valid, test_year) ==
    {valid[i] : i \in 1..Len(valid)}

\* only the years before the test year, as a sliding window would take
train_years_preceding(valid, test_year) ==
    {valid[i] : i \in 1..Len(valid)} \cap (YearStart..(test_year - 1))

\* train_years = [y for y in valid_years if y != test_year]
train_years(valid, test_year) ==
    {valid[i] : i \in 1..Len(valid)} \ {test_year}

RECURSIVE SplitsFrom(_, _, _)
SplitsFrom(data, valid, i) ==
    IF i > Len(valid) THEN <<>>
    ELSE LET test_year == valid[i]
             train_data == RowsOfYears(data, train_years(valid, test_year))
             test_data == RowsOfYears(data, {test_year})
             fold == [train |-> train_data, test |-> test_data,
                      test_year |-> test_year,
                      n_train_years |-> Cardinality(train_years(valid, test_year))]
         IN (IF RowCount(train_data) > 0 /\ RowCount(test_data) > 0
             THEN <<fold>> ELSE <<>>) \o SplitsFrom(data, valid, i + 1)

\* folds only from three valid years on
loocv_splits_min3(data) ==
    LET valid == valid_years(data)
    IN IF Len(valid) < 3 THEN <<>> ELSE SplitsFrom(data, valid, 1)

loocv_splits(data) ==
    LET valid == valid_years(data)
    IN IF Len(valid) < 2 THEN <<>> ELSE SplitsFrom(data, valid, 1)

(* ---------------------------- calculate_metrics -------------------------- *)
None == [kind |-> "None"]

\* the obs and sim arrays of a call, paired by position
Pairs(rows) ==
    [i \in 1..Len(rows) |-> [obs |-> rows[i].obs, sim |-> rows[i].sim, n |-> rows[i].n]]

\* the mask taken on the observed values only
MaskedObsOnly(pairs) == SelectSeq(pairs, LAMBDA p : p.obs > 0)

\* mask = (obs > 0) & (sim > 0)
Masked(pairs) == SelectSeq(pairs, LAMBDA p : p.obs > 0 /\ p.sim > 0)

\* the guard taken as "at most 10"
calculate_metrics_le(pairs) ==
    LET kept == Masked(pairs)
    IN IF RowCount(kept) <= MinPairs THEN None
       ELSE [kind |-> "metrics", pairs |-> kept]

calculate_metrics(pairs) ==
    LET kept == Masked(pairs)
    IN IF RowCount(kept) < MinPairs THEN None
       ELSE [kind |-> "metrics", pairs |-> kept]


(* ----------------------- DetrendedQuantileMapping ------------------------ *)
\* What the library may do in one (fold, quantile count) cell: raise from
\* train or adjust, or return an adjusted series of which the first `keep`
\* values are positive and the others are not (zero or NaN fail the mask alike).
CellOutcomes(test) ==
    {[exc |-> TRUE, keep |-> 0]} \cup
    {[exc |-> FALSE, keep |-> k] : k \in {MinPairs - 1, MinPairs, RowCount(test)}}

RECURSIVE Adjusted(_, _)
\* (test_df["obs"].values, test_qmap): the pairs handed to calculate_metrics
Adjusted(test, keep) ==
    IF test = <<>> THEN <<>>
    ELSE LET g == Head(test)
             pos == [obs |-> g.obs, sim |-> g.sim, n |-> g.n]
             non == [obs |-> g.obs, sim |-> 0, n |-> g.n]
         IN IF keep >= g.n
            THEN <<pos>> \o Adjusted(Tail(test), keep - g.n)
            ELSE IF keep = 0
            THEN <<non>> \o Adjusted(Tail(test), 0)
            ELSE <<[pos EXCEPT !.n = keep], [non EXCEPT !.n = g.n - keep]>>
                     \o Adjusted(Tail(test), 0)

(* ----------------------------- process_station --------------------------- *)
RawRow(split) ==
    [type |-> "Raw", nq |-> "raw", test_year |-> split.test_year,
     n_train_years |-> split.n_train_years]

\* every DQM row tagged with the first quantile count
DqmRowFirst(split, nq) ==
    [type |-> "DQM", nq |-> DefaultQuantiles[1], test_year |-> split.test_year,
     n_train_years |-> split.n_train_years]

DqmRow(split, nq) ==
    [type |-> "DQM", nq |-> nq, test_year |-> split.test_year,
     n_train_years |-> split.n_train_years]

\* raw_metrics of a fold: one Raw row when metrics are available
RawRows(split) ==
    IF calculate_metrics(Pairs(split.test)).kind # "None"
    THEN <<RawRow(split)>> ELSE <<>>

\* the whole series handed to train
train_da_leak(split) == split.train \o split.test

\* train_obs_da, train_sim_da = as_xarray(train_df, ...): what train is given
train_da(split) == split.train

\* test_sim_da = as_xarray(test_df, ...): what adjust is given
test_da(split) == split.test

\* the exception ends the loop over quantile counts
OnExceptionBreak(call, rest) ==
    [rows |-> <<>>, calls |-> <<call>>]

\* except Exception: continue -- the cell adds no row, the loop goes on
OnException(call, rest) ==
    [rows |-> rest.rows, calls |-> <<call>> \o rest.calls]

RECURSIVE RunCells(_, _, _, _)
\* for nq in quantiles_list: the rows appended and the train/adjust calls made
RunCells(split, ql, outs, i) ==
    IF i > Len(ql) THEN [rows |-> <<>>, calls |-> <<>>]
    ELSE LET call == [test_year |-> split.test_year, nq |-> ql[i],
                      train |-> train_da(split), target |-> test_da(split)]
             rest == RunCells(split, ql, outs, i + 1)
         IN IF outs[i].exc THEN OnException(call, rest)
            ELSE LET m == calculate_metrics(Adjusted(test_da(split), outs[i].keep))
                 IN [rows |-> (IF m.kind # "None"
                               THEN <<DqmRow(split, ql[i])>> ELSE <<>>) \o rest.rows,
                     calls |-> <<call>> \o rest.calls]

\* the empty series is not told apart
NoDataNever(d) == FALSE

\* if len(data) == 0
NoData(d) == RowCount(d) = 0

\* the row count returned also when nothing was collected
ReturnStatusLen(res) == [kind |-> "rows", n |-> Len(res)]

\* return station_id, len(results) -- or "No Results" when nothing was collected
ReturnStatus(res) ==
    IF res # <<>> THEN [kind |-> "rows", n |-> Len(res)]
    ELSE [kind |-> "No Results"]

VARIABLES
    stations,        \* cv_glofas: the station ids of the run
    quantiles_list,  \* cv_glofas: the candidate quantile counts
    exists,          \* station id -> whether its input tables are on disk
    tables,          \* station id -> its observed and simulated tables, joined
    outFiles,        \* station id -> the results tables written to <id>.csv
    max_workers,     \* cv_glofas: size of the process pool
    mainpc,          \* cv_glofas: "init", "collect", "done"
    printed,         \* task -> what the as_completed loop printed for it
    pc,              \* task -> position of its process_station call
    data,            \* task -> the aligned series
    splits,          \* task -> the folds
    fi,              \* task -> index of the next fold
    results,         \* task -> the rows collected so far
    trainLog,        \* task -> the train/adjust calls made so far
    lastExc,         \* task -> per cell of the last fold: did it raise
    caught,          \* task -> whether any cell raised so far
    ret,             \* task -> what process_station returned
    obs_df,          \* read_station_data_cv: the observed table as read
    sim_df,          \* read_station_data_cv: the simulated table as read
    aligned,         \* read_station_data_cv: the series it returned
    apc,             \* read_station_data_cv: "off", "call", "returned", "again"
    cstations,       \* correct_all_stations: the station ids to correct
    quantiles_map,   \* correct_all_stations: station id -> quantile count
    obsIn,           \* station id -> its observed table on disk
    rawIn,           \* station id -> its raw simulated table on disk
    ci,              \* correct_all_stations: index of the next station
    cpc,             \* "off", "correct" (in the loop), "serve", "served"
    modelFiles,      \* path of a model file -> what the file holds
    corFiles,        \* station id -> the tables written to cor/<id>.csv
    corLog,          \* station id -> the train/adjust calls of correct_station
    newCall,         \* the last call of correct_new_data and what it returned
    today,           \* date.today() of the call or run
    last_data_date,  \* the last date for which data is stored
    missing_years,   \* what get_missing_years returned
    upc,             \* "off", "start", "years" (before get_missing_years),
                     \* "returned", "loop", "build", "done"
    s3meta,          \* the bucket's metadata.json
    s3objects,       \* key of a parquet object of the bucket -> its rows
    new_raw_data,    \* main (all_raw_data): gauge id -> the new raw records extracted for it
    update_date,     \* main: today.isoformat() of the run
    gi,              \* main: index of the next gauge of `for gauge_id in GAUGE_IDS`
    runs,            \* the number of the run of main
    gauge_data       \* main: what download_from_s3 returned for the website

cvVars == <<stations, quantiles_list, exists, tables, outFiles, max_workers,
            mainpc, printed, pc, data, splits, fi, results, trainLog, lastExc,
            caught, ret>>
alignVars == <<obs_df, sim_df, aligned, apc>>
corrVars == <<cstations, quantiles_map, obsIn, rawIn, ci, cpc, modelFiles,
              corFiles, corLog, newCall>>
s3Vars == <<s3meta, s3objects, new_raw_data, update_date, gi, runs, gauge_data>>
updVars == <<today, last_data_date, missing_years, upc, s3Vars>>
vars == <<cvVars, alignVars, corrVars, updVars>>
\* what a step of cv_glofas leaves alone
nonCvVars == <<alignVars, corrVars, updVars>>

Tasks == 1..Len(stations)
StationIds == {stations[t] : t \in Tasks}
NoReturn == [kind |-> "none"]
Busy == {"read", "split", "folds", "write"}

(* ------------------------------ the inputs ------------------------------- *)
Years == (YearEnd - NumYears + 2)..(YearEnd + 1)

\* a year whose rows all lie before the season
Offseason(y) ==
    <<[year |-> y, month |-> MonthStart - 1, obs |-> 120, sim |-> 180,
       n |-> MinYearCount + 1]>>
\* a year one row short of the coverage threshold
Short(y) ==
    <<[year |-> y, month |-> 7, obs |-> 120, sim |-> 180, n |-> MinYearCount]>>
\* a year of zero flows that passes the threshold
Full(y) ==
    <<[year |-> y, month |-> 7, obs |-> 0, sim |-> 0, n |-> MinYearCount + 1]>>
\* a year that passes the threshold with too few positive observations
Neg(y) ==
    <<[year |-> y, month |-> 7, obs |-> 120, sim |-> 180, n |-> MinPairs - 1],
      [year |-> y, month |-> 8, obs |-> 0 - Epsilon, sim |-> 180,
       n |-> MinYearCount + 2 - MinPairs]>>

YearProfiles(y) ==
    IF y > YearEnd THEN {Full(y)}
    ELSE {Offseason(y), Short(y), Full(y), Neg(y)}

RECURSIVE TablesUpTo(_)
TablesUpTo(y) ==
    IF y < YearEnd - NumYears + 2 THEN {<<>>}
    ELSE {t \o p : t \in TablesUpTo(y - 1), p \in YearProfiles(y)}

InputTables == TablesUpTo(YearEnd + 1)

(* ------------------------------- cv_glofas ------------------------------- *)
InitRun(ids, ql, inputs) ==
    /\ stations = ids
    /\ quantiles_list = ql
    /\ exists \in [StationIds -> BOOLEAN]
    /\ tables \in [StationIds -> inputs \cup {<<>>}]
    /\ \A s \in StationIds : ~exists[s] => tables[s] = <<>>
    /\ outFiles = [s \in StationIds |-> <<>>]
    /\ max_workers = 0
    /\ mainpc = "init"
    /\ printed = [t \in Tasks |-> <<>>]
    /\ pc = [t \in Tasks |-> "new"]
    /\ data = [t \in Tasks |-> <<>>]
    /\ splits = [t \in Tasks |-> <<>>]
    /\ fi = [t \in Tasks |-> 1]
    /\ results = [t \in Tasks |-> <<>>]
    /\ trainLog = [t \in Tasks |-> <<>>]
    /\ lastExc = [t \in Tasks |-> <<>>]
    /\ caught = [t \in Tasks |-> FALSE]
    /\ ret = [t \in Tasks |-> NoReturn]

\* no table is being aligned
AlignOff == obs_df = <<>> /\ sim_df = <<>> /\ aligned = <<>> /\ apc = "off"

NoCall == [kind |-> "none"]

\* no correction is running
CorrOff ==
    /\ cstations = <<>>
    /\ quantiles_map = <<>>
    /\ obsIn = <<>>
    /\ rawIn = <<>>
    /\ ci = 1
    /\ cpc = "off"
    /\ modelFiles = <<>>
    /\ corFiles = <<>>
    /\ corLog = <<>>
    /\ newCall = NoCall

NoDate == [year |-> 0, month |-> 0, day |-> 0]

NoMetadata == [kind |-> "none"]

\* no bucket is used
S3Off ==
    /\ s3meta = NoMetadata
    /\ s3objects = <<>>
    /\ new_raw_data = <<>>
    /\ update_date = <<>>
    /\ gi = 1
    /\ runs = 1
    /\ gauge_data = <<>>

\* no update is running
UpdOff ==
    /\ today = NoDate
    /\ last_data_date = NoDate
    /\ missing_years = <<>>
    /\ upc = "off"
    /\ S3Off

\* one gauge, every input table of the window
Init ==
    /\ InitRun(SubSeq(DefaultStations, 1, 1),
               SubSeq(DefaultQuantiles, 1, MaxQuantiles), InputTables)
    /\ AlignOff
    /\ CorrOff
    /\ UpdOff

\* a batch of gauges: tables with no, one and two valid years, one quantile count
BatchTables == {Full(YearEnd), Full(YearEnd - 1) \o Full(YearEnd)}

InitBatch ==
    /\ InitRun(SubSeq(DefaultStations, 1, MaxStations),
               SubSeq(DefaultQuantiles, 1, 1), BatchTables)
    /\ AlignOff
    /\ CorrOff
    /\ UpdOff

Min(a, b) == IF a <= b THEN a ELSE b

\* max_workers = min(len(stations), os.cpu_count() or 1); executor.submit(...)
Submit ==
    /\ mainpc = "init"
    /\ \E cpu \in 1..MaxCpu : max_workers' = Min(Len(stations), cpu)
    /\ pc' = [t \in Tasks |-> "queued"]
    /\ mainpc' = "collect"
    /\ UNCHANGED <<stations, quantiles_list, exists, tables, outFiles, printed,
                   data, splits, fi, results, trainLog, lastExc, caught, ret>>

\* a free worker takes the oldest queued call; output_path.mkdir(...)
StartTask(t) ==
    /\ pc[t] = "queued"
    /\ \A u \in Tasks : u < t => pc[u] # "queued"
    /\ Cardinality({u \in Tasks : pc[u] \in Busy}) < max_workers
    /\ pc' = [pc EXCEPT ![t] = "read"]
    /\ UNCHANGED <<stations, quantiles_list, exists, tables, outFiles, max_workers,
                   mainpc, printed, data, splits, fi, results, trainLog, lastExc,
                   caught, ret>>

\* data = read_station_data(...); if len(data) == 0: return "No Data"
ReadStation(t) ==
    /\ pc[t] = "read"
    /\ IF ~exists[stations[t]]
       THEN /\ pc' = [pc EXCEPT ![t] = "raised"]
            /\ UNCHANGED <<data, ret>>
       ELSE LET d == read_station_data(tables[stations[t]])
            IN /\ data' = [data EXCEPT ![t] = d]
               /\ IF NoData(d)
                  THEN /\ pc' = [pc EXCEPT ![t] = "returned"]
                       /\ ret' = [ret EXCEPT ![t] = [kind |-> "No Data"]]
                  ELSE /\ pc' = [pc EXCEPT ![t] = "split"]
                       /\ UNCHANGED ret
    /\ UNCHANGED <<stations, quantiles_list, exists, tables, outFiles, max_workers,
                   mainpc, printed, splits, fi, results, trainLog, lastExc, caught>>

\* splits = loocv_splits(data); if not splits: return "Insufficient Data"
SplitStation(t) ==
    /\ pc[t] = "split"
    /\ LET sp == loocv_splits(data[t])
       IN /\ splits' = [splits EXCEPT ![t] = sp]
          /\ IF sp = <<>>
             THEN /\ pc' = [pc EXCEPT ![t] = "returned"]
                  /\ ret' = [ret EXCEPT ![t] = [kind |-> "Insufficient Data"]]
             ELSE /\ pc' = [pc EXCEPT ![t] = "folds"]
                  /\ UNCHANGED ret
    /\ UNCHANGED <<stations, quantiles_list, exists, tables, outFiles, max_workers,
                   mainpc, printed, data, fi, results, trainLog, lastExc, caught>>

\* one pass of `for split in splits`: the Raw row, then every quantile count
FoldStep(t) ==
    /\ pc[t] = "folds"
    /\ LET split == splits[t][fi[t]]
       IN \E outs \in [1..Len(quantiles_list) -> CellOutcomes(split.test)] :
            LET run == RunCells(split, quantiles_list, outs, 1)
            IN /\ results' = [results EXCEPT ![t] = @ \o RawRows(split) \o run.rows]
               /\ trainLog' = [trainLog EXCEPT ![t] = @ \o run.calls]
               /\ lastExc' = [lastExc EXCEPT ![t] = [i \in 1..Len(outs) |-> outs[i].exc]]
               /\ caught' = [caught EXCEPT ![t] = @ \/ \E i \in 1..Len(outs) : outs[i].exc]
    /\ fi' = [fi EXCEPT ![t] = @ + 1]
    /\ pc' = [pc EXCEPT ![t] = IF fi[t] = Len(splits[t]) THEN "write" ELSE "folds"]
    /\ UNCHANGED <<stations, quantiles_list, exists, tables, outFiles, max_workers,
                   mainpc, printed, data, splits, ret>>

\* an output name that does not depend on the gauge
WriteResultsShared(t) ==
    /\ pc[t] = "write"
    /\ IF results[t] # <<>>
       THEN outFiles' = [outFiles EXCEPT ![stations[1]] = Append(@, results[t])]
       ELSE UNCHANGED outFiles
    /\ ret' = [ret EXCEPT ![t] = ReturnStatus(results[t])]
    /\ pc' = [pc EXCEPT ![t] = "returned"]
    /\ UNCHANGED <<stations, quantiles_list, exists, tables, max_workers, mainpc,
                   printed, data, splits, fi, results, trainLog, lastExc, caught>>

\* if results: results_df.to_csv(...); return len(results) -- else "No Results"
WriteResults(t) ==
    /\ pc[t] = "write"
    /\ IF results[t] # <<>>
       THEN outFiles' = [outFiles EXCEPT ![stations[t]] = Append(@, results[t])]
       ELSE UNCHANGED outFiles
    /\ ret' = [ret EXCEPT ![t] = ReturnStatus(results[t])]
    /\ pc' = [pc EXCEPT ![t] = "returned"]
    /\ UNCHANGED <<stations, quantiles_list, exists, tables, max_workers, mainpc,
                   printed, data, splits, fi, results, trainLog, lastExc, caught>>

\* future.result() outside a try: a gauge's exception leaves the loop
ReportNoCatch(t) ==
    /\ mainpc = "collect"
    /\ pc[t] \in {"returned", "raised"}
    /\ printed[t] = <<>>
    /\ IF pc[t] = "raised"
       THEN mainpc' = "failed" /\ UNCHANGED printed
       ELSE printed' = [printed EXCEPT ![t] = Append(@, "completed")]
            /\ UNCHANGED mainpc
    /\ UNCHANGED <<stations, quantiles_list, exists, tables, outFiles, max_workers,
                   pc, data, splits, fi, results, trainLog, lastExc, caught, ret>>

\* for future in as_completed(futures): try: future.result() ... except: print
Report(t) ==
    /\ mainpc = "collect"
    /\ pc[t] \in {"returned", "raised"}
    /\ printed[t] = <<>>
    /\ printed' = [printed EXCEPT ![t] =
                      Append(@, IF pc[t] = "raised" THEN "exception" ELSE "completed")]
    /\ UNCHANGED <<stations, quantiles_list, exists, tables, outFiles, max_workers,
                   mainpc, pc, data, splits, fi, results, trainLog, lastExc, caught,
                   ret>>

\* the loop ends and the executor shuts down
Finish ==
    /\ mainpc = "collect"
    /\ \A t \in Tasks : printed[t] # <<>>
    /\ mainpc' = "done"
    /\ UNCHANGED <<stations, quantiles_list, exists, tables, outFiles, max_workers,
                   printed, pc, data, splits, fi, results, trainLog, lastExc, caught,
                   ret>>

Next ==
    \/ Submit /\ UNCHANGED nonCvVars
    \/ Finish /\ UNCHANGED nonCvVars
    \/ \E t \in Tasks : StartTask(t) /\ UNCHANGED nonCvVars
    \/ \E t \in Tasks : ReadStation(t) /\ UNCHANGED nonCvVars
    \/ \E t \in Tasks : SplitStation(t) /\ UNCHANGED nonCvVars
    \/ \E t \in Tasks : FoldStep(t) /\ UNCHANGED nonCvVars
    \/ \E t \in Tasks : WriteResults(t) /\ UNCHANGED nonCvVars
    \/ \E t \in Tasks : Report(t) /\ UNCHANGED nonCvVars

Spec == Init /\ [][Next]_vars

\* worker processes and the collecting loop keep running
SpecBatch == InitBatch /\ [][Next]_vars /\ WF_vars(Next)

(* ------------- read_station_data_cv at the level of dates ---------------- *)
\* sub-daily timestamps a simulated table may hold for one day
MaxSubDaily == 2

\* a missing value of a table (NaN), outside the range of the discharges
NaN == -99999

IsLeap(y) == y % 4 = 0 /\ (y % 100 # 0 \/ y % 400 = 0)
DaysInMonth(y, m) ==
    IF m = 2 THEN (IF IsLeap(y) THEN 29 ELSE 28)
    ELSE IF m \in {4, 6, 9, 11} THEN 30 ELSE 31

Date(y, m, d) == [year |-> y, month |-> m, day |-> d]

\* the calendar day after a date
DayAfter(d) ==
    IF d.day < DaysInMonth(d.year, d.month) THEN Date(d.year, d.month, d.day + 1)
    ELSE IF d.month < 12 THEN Date(d.year, d.month + 1, 1)
    ELSE Date(d.year + 1, 1, 1)

\* the simulated dates left as they are
NoShift(d) == d

\* ... - pd.Timedelta(days=1)
DayBefore(d) ==
    IF d.day > 1 THEN Date(d.year, d.month, d.day - 1)
    ELSE IF d.month > 1 THEN Date(d.year, d.month - 1, DaysInMonth(d.year, d.month - 1))
    ELSE Date(d.year - 1, 12, 31)

\* pd.to_datetime(sim_df["datetime"]).dt.date
DateOf(ts) == Date(ts.year, ts.month, ts.day)

\* sim_df["date"] = the date of the timestamp, one day back
ShiftSim(sim) ==
    [k \in 1..Len(sim) |->
        [date |-> DayBefore(DateOf(sim[k].datetime)), q_raw |-> sim[k].q_raw]]

\* obs_df.merge(sim_df, on="date", how="inner")[["date", "q_cms", "q_raw"]],
\* renamed: one row per pair of rows with equal dates, in the order of obs_df
RECURSIVE Merge(_, _)
Merge(obs, sim) ==
    IF obs = <<>> THEN <<>>
    ELSE LET o == Head(obs)
             m == SelectSeq(sim, LAMBDA r : r.date = o.date)
         IN [k \in 1..Len(m) |-> [date |-> o.date, obs |-> o.q_cms, sim |-> m[k].q_raw]]
            \o Merge(Tail(obs), sim)

\* merged.dropna()
Dropna(rows) == SelectSeq(rows, LAMBDA r : r.obs # NaN /\ r.sim # NaN)

\* merged["year"], merged["month"]; each record is one row
WithYearMonth(rows) ==
    [k \in 1..Len(rows) |->
        [date |-> rows[k].date, obs |-> rows[k].obs, sim |-> rows[k].sim,
         year |-> rows[k].date.year, month |-> rows[k].date.month, n |-> 1]]

read_station_data_cv(obs, sim) ==
    read_station_data(WithYearMonth(Dropna(Merge(obs, ShiftSim(sim)))))

\* the dates the input tables are built around
FocusDates ==
    {Date(YearStart - 1, 7, 1), Date(YearStart - 1, 12, 31),
     Date(YearStart, 4, 30), Date(YearStart, 5, 1), Date(1992, 2, 29),
     Date(YearEnd, 9, 30), Date(YearEnd, 10, 31), Date(YearEnd, 11, 1),
     Date(YearEnd + 1, 7, 1)}

\* an observed table has no row for d, a missing value, a zero or a flow
ObsRowsAt(d) == {<<>>} \cup {<<[date |-> d, q_cms |-> v]>> : v \in {NaN, 0, 120}}

Stamp(d, k) ==
    [year |-> d.year, month |-> d.month, day |-> d.day,
     hour |-> (k - 1) * (24 \div MaxSubDaily)]

\* a simulated table has no row for a timestamp, a missing value or a flow
SimRowsAt(ts) == {<<>>} \cup {<<[datetime |-> ts, q_raw |-> v]>> : v \in {NaN, 180}}

\* the rows a simulated table may hold for the first k timestamps of day d
RECURSIVE SubDaily(_, _)
SubDaily(d, k) ==
    IF k = 0 THEN {<<>>}
    ELSE {a \o b : a \in SubDaily(d, k - 1), b \in SimRowsAt(Stamp(d, k))}

\* a pair of rows in the middle of a season
MidSeason == Date(1990, 7, 15)

InitAlign ==
    /\ InitRun(<<>>, <<>>, {})
    /\ \E d \in FocusDates :
          /\ obs_df \in {bg \o o : bg \in ObsRowsAt(MidSeason),
                                   o \in ObsRowsAt(d)}
          /\ sim_df \in {bg \o a \o b :
                            bg \in {<<>>, <<[datetime |-> Stamp(DayAfter(MidSeason), 1),
                                             q_raw |-> 180]>>},
                            a \in {<<>>, <<[datetime |-> Stamp(d, 1), q_raw |-> 70]>>},
                            b \in SubDaily(DayAfter(d), MaxSubDaily)}
    /\ aligned = <<>>
    /\ apc = "call"
    /\ CorrOff
    /\ UpdOff

\* a call that writes the shifted dates back into the simulated table
ReadStationCvInPlace ==
    /\ apc \in {"call", "returned"}
    /\ aligned' = read_station_data_cv(obs_df, sim_df)
    /\ sim_df' = [k \in 1..Len(sim_df) |->
                     [sim_df[k] EXCEPT !.datetime =
                         [year |-> DayBefore(DateOf(@)).year,
                          month |-> DayBefore(DateOf(@)).month,
                          day |-> DayBefore(DateOf(@)).day, hour |-> @.hour]]]
    /\ apc' = IF apc = "call" THEN "returned" ELSE "again"
    /\ UNCHANGED <<cvVars, obs_df, corrVars, updVars>>

\* a call read_station_data_cv(station_id, obs_dir, sim_dir), the first or a
\* second one on the same files
ReadStationCv ==
    /\ apc \in {"call", "returned"}
    /\ aligned' = read_station_data_cv(obs_df, sim_df)
    /\ apc' = IF apc = "call" THEN "returned" ELSE "again"
    /\ UNCHANGED <<cvVars, obs_df, sim_df, corrVars, updVars>>

NextAlign ==
    \/ ReadStationCv

SpecAlign == InitAlign /\ [][NextAlign]_vars

(* ---------------- correct_all_stations and correct_new_data -------------- *)
correction_months == {5, 6, 7, 8, 9}

QUANTILES_MAP ==
    (1496 :> 20) @@ (1497 :> 10) @@ (1499 :> 1) @@ (1502 :> 15) @@ (1504 :> 1)
    @@ (1508 :> 10) @@ (1587 :> 1)

\* np.maximum(x, 0.0)
Maximum0(x) == IF x > 0 THEN x ELSE 0

\* the raw table with its dates one day back and epsilon added
read_all_raw_data(raw_df) ==
    [k \in 1..Len(raw_df) |->
        [date |-> DayBefore(DateOf(raw_df[k].datetime)),
         sim |-> raw_df[k].q_raw + Epsilon]]

DateLE(a, b) ==
    \/ a.year < b.year
    \/ a.year = b.year /\ a.month < b.month
    \/ a.year = b.year /\ a.month = b.month /\ a.day <= b.day

\* result_df.sort_values("date")
RECURSIVE SortByDate(_)
SortByDate(rows) ==
    IF rows = <<>> THEN <<>>
    ELSE LET h == Head(rows)
             rest == SortByDate(Tail(rows))
         IN SelectSeq(rest, LAMBDA r : ~DateLE(h.date, r.date)) \o <<h>>
            \o SelectSeq(rest, LAMBDA r : DateLE(h.date, r.date))

\* what a model file may hold
NoFile == [kind |-> "absent"]
Partial == [kind |-> "partial"]
Dqm(station_id, n_quantiles) ==
    [kind |-> "dqm", station |-> station_id, nquantiles |-> n_quantiles]

\* models_path / f"{station_id}_dqm.pkl"
model_file(station_id) == [dir |-> "data/models", stem |-> station_id, suffix |-> "_dqm.pkl"]

\* one file name for every gauge
model_path_shared(gauge_id) ==
    [dir |-> "data/models", stem |-> DefaultStations[1], suffix |-> "_dqm.pkl"]

\* MODELS_DIR / f"{gauge_id}_dqm.pkl"
model_path(gauge_id) == [dir |-> "data/models", stem |-> gauge_id, suffix |-> "_dqm.pkl"]

\* the gauges of the service: the corrected stations and one more
GaugeIds == {DefaultStations[i] : i \in 1..(MaxStations + 1)}

\* the factors by which dqm.adjust may scale a series
AdjustScales == {0, 2}

\* pickle.dump: done, open() failed, or failed after the file was opened
SaveOutcomes == {"ok", "open", "dump"}

\* what the library calls of correct_station may do
CorrOutcomes ==
    {[exc |-> "train", save |-> "none", scale |-> 0]}
    \cup {[exc |-> "adjust", save |-> sv, scale |-> 0] : sv \in SaveOutcomes}
    \cup {[exc |-> "none", save |-> sv, scale |-> k] : sv \in SaveOutcomes, k \in AdjustScales}

\* no in-season record: neither train nor adjust is called
NoLibraryCall == [exc |-> "nocall", save |-> "none", scale |-> 0]

InSeason(rows) == SelectSeq(rows, LAMBDA r : r.date.month \in correction_months)
OffSeason(rows) == SelectSeq(rows, LAMBDA r : r.date.month \notin correction_months)

\* the in-season rows left out when the library raises
CorrectedRowsDropped(rows, o) ==
    IF o.exc # "none" THEN <<>>
    ELSE [k \in 1..Len(rows) |->
            [date |-> rows[k].date,
             q_cor |-> Maximum0(o.scale * rows[k].sim - Epsilon)]]

\* q_cor of data_to_correct in correct_station: adjusted, or the fallback
CorrectedRows(rows, o) ==
    [k \in 1..Len(rows) |->
        [date |-> rows[k].date,
         q_cor |-> IF o.exc = "none"
                   THEN Maximum0(o.scale * rows[k].sim - Epsilon)
                   ELSE rows[k].sim - Epsilon]]

\* q_cor of data_raw_only in correct_station
RawOnlyRows(rows) ==
    [k \in 1..Len(rows) |->
        [date |-> rows[k].date, q_cor |-> Maximum0(rows[k].sim - Epsilon)]]

\* save_dqm_model
save_dqm_model(files, station_id, n_quantiles, outcome) ==
    IF outcome = "ok"
    THEN [files EXCEPT ![model_file(station_id)] = Dqm(station_id, n_quantiles)]
    ELSE IF outcome = "dump"
    THEN [files EXCEPT ![model_file(station_id)] = Partial]
    ELSE files

\* the raw tables of a station: three days, left in file order or not
StampJul == Stamp(Date(1990, 7, 2), 1)
StampNov == Stamp(Date(1990, 11, 1), 1)
StampJan == Stamp(Date(1991, 1, 15), 1)

RawRow3(a, b, c) ==
    <<[datetime |-> StampJul, q_raw |-> a], [datetime |-> StampNov, q_raw |-> b],
      [datetime |-> StampJan, q_raw |-> c]>>

ObsTwo ==
    <<[date |-> DayBefore(DateOf(StampJul)), q_cms |-> 120],
      [date |-> DayBefore(DateOf(StampNov)), q_cms |-> 120]>>

\* the input files of a station
CorrInputs ==
    {[obs |-> <<>>, raw |-> RawRow3(180, 180, 180)],
     [obs |-> ObsTwo, raw |-> RawRow3(180, 180, 180)],
     [obs |-> ObsTwo, raw |-> <<RawRow3(0 - 50, 180, 0 - 50)[3]>>
                               \o SubSeq(RawRow3(0 - 50, 180, 0 - 50), 1, 2)],
     [obs |-> ObsTwo, raw |-> SubSeq(RawRow3(180, 180, 180), 2, 3)]}

\* the tables handed to correct_new_data
NewTables ==
    {<<>>,
     <<RawRow3(180, 180, 0 - 50)[3], RawRow3(180, 180, 0 - 50)[1]>>,
     SubSeq(RawRow3(180, 180, 180), 2, 3)}

InitCorrect ==
    /\ InitRun(<<>>, <<>>, {})
    /\ AlignOff
    /\ cstations = SubSeq(DefaultStations, 1, MaxStations)
    /\ quantiles_map \in
          {QUANTILES_MAP,
           [s \in DOMAIN QUANTILES_MAP \ {DefaultStations[1]} |-> QUANTILES_MAP[s]]}
    /\ \E f \in [{cstations[i] : i \in 1..Len(cstations)} -> CorrInputs] :
          /\ obsIn = [x \in DOMAIN f |-> f[x].obs]
          /\ rawIn = [x \in DOMAIN f |-> f[x].raw]
    /\ ci = 1
    /\ cpc = "correct"
    /\ modelFiles = [x \in {model_file(g) : g \in GaugeIds} |-> NoFile]
    /\ corFiles = [x \in {cstations[i] : i \in 1..Len(cstations)} |-> <<>>]
    /\ corLog = [x \in {cstations[i] : i \in 1..Len(cstations)} |-> <<>>]
    /\ newCall = NoCall
    /\ UpdOff

\* one pass of `for station_id in stations` with its call of correct_station
CorrectStation ==
    /\ cpc = "correct"
    /\ ci <= Len(cstations)
    /\ LET station_id == cstations[ci]
           train_data == read_station_data_cv(obsIn[station_id], rawIn[station_id])
           all_raw_data == read_all_raw_data(rawIn[station_id])
           data_to_correct == InSeason(all_raw_data)
           data_raw_only == OffSeason(all_raw_data)
       IN IF \/ station_id \notin DOMAIN quantiles_map
             \/ Len(train_data) = 0
             \/ Len(all_raw_data) = 0
          THEN UNCHANGED <<modelFiles, corFiles, corLog>>
          ELSE \E o \in (IF Len(data_to_correct) > 0 THEN CorrOutcomes
                                                    ELSE {NoLibraryCall}) :
                 /\ modelFiles' = save_dqm_model(modelFiles, station_id,
                                                quantiles_map[station_id], o.save)
                 /\ corFiles' = [corFiles EXCEPT ![station_id] =
                        Append(@, SortByDate(CorrectedRows(data_to_correct, o)
                                             \o RawOnlyRows(data_raw_only)))]
                 /\ corLog' = [corLog EXCEPT ![station_id] =
                        IF o.exc = "nocall" THEN @
                        ELSE Append(@, [train |-> train_data,
                                        target |-> IF o.exc = "train" THEN <<>>
                                                   ELSE data_to_correct,
                                        exc |-> o.exc, save |-> o.save])]
    /\ ci' = ci + 1
    /\ cpc' = IF ci = Len(cstations) THEN "serve" ELSE "correct"
    /\ UNCHANGED <<cvVars, alignVars, updVars, cstations, quantiles_map, obsIn,
                   rawIn, newCall>>

\* the date column of correct_new_data: the date of the timestamp, a day back
NewRows(raw_df) ==
    [k \in 1..Len(raw_df) |->
        [date |-> DayBefore(DateOf(raw_df[k].datetime)), q_raw |-> raw_df[k].q_raw]]

\* q_cor = max(adjusted(q_raw + epsilon) - epsilon, 0)
AdjustedRows(rows, scale) ==
    [k \in 1..Len(rows) |->
        [date |-> rows[k].date,
         q_cor |-> Maximum0(scale * (rows[k].q_raw + Epsilon) - Epsilon)]]

\* q_cor = max(q_raw, 0)
PassRows(rows) ==
    [k \in 1..Len(rows) |-> [date |-> rows[k].date, q_cor |-> Maximum0(rows[k].q_raw)]]

\* what a call returns and, for the record, what it loaded and adjusted
Returned(variant, gauge_id, raw_df, load, applied, result) ==
    [kind |-> "call", variant |-> variant, gauge_id |-> gauge_id, raw_df |-> raw_df,
     load |-> load, applied |-> applied, result |-> result]

NotLoaded == [kind |-> "notloaded"]

\* load_dqm_model: the model, or the exception it raises
load_dqm_model(files, gauge_id) ==
    IF files[model_path(gauge_id)].kind = "absent" THEN [kind |-> "FileNotFoundError"]
    ELSE IF files[model_path(gauge_id)].kind = "partial" THEN [kind |-> "UnpicklingError"]
    ELSE files[model_path(gauge_id)]

\* correct_new_data of src/glofas/process.py; adj is "raise" or a scale
correct_new_data(files, gauge_id, raw_df, raises, scale) ==
    LET rows == NewRows(raw_df)
        data_to_correct == InSeason(rows)
        data_raw_only == OffSeason(rows)
        dqm == load_dqm_model(files, gauge_id)
    IN IF Len(raw_df) = 0
       THEN Returned("process", gauge_id, raw_df, NotLoaded, <<>>, <<>>)
       ELSE IF Len(data_to_correct) = 0
       THEN Returned("process", gauge_id, raw_df, NotLoaded, <<>>,
                     SortByDate(PassRows(data_raw_only)))
       ELSE IF dqm.kind # "dqm"
       THEN Returned("process", gauge_id, raw_df, dqm, <<>>, <<>>)
       ELSE IF raises
       THEN Returned("process", gauge_id, raw_df, dqm, data_to_correct, <<>>)
       ELSE Returned("process", gauge_id, raw_df, dqm, data_to_correct,
                     SortByDate(AdjustedRows(data_to_correct, scale)
                                \o PassRows(data_raw_only)))

\* correct_new_data of web/build.py
correct_new_data_web(files, gauge_id, raw_df, raises, scale) ==
    LET rows == NewRows(raw_df)
        dqm == load_dqm_model(files, gauge_id)
    IN IF Len(raw_df) = 0
       THEN Returned("web", gauge_id, raw_df, NotLoaded, <<>>, <<>>)
       ELSE IF dqm.kind # "dqm"
       THEN Returned("web", gauge_id, raw_df, dqm, <<>>, <<>>)
       ELSE IF raises
       THEN Returned("web", gauge_id, raw_df, dqm, rows, <<>>)
       ELSE Returned("web", gauge_id, raw_df, dqm, rows, AdjustedRows(rows, scale))

\* a call of correct_new_data (src/glofas/process.py) for new raw data
CorrectNewData ==
    /\ cpc = "serve"
    /\ \E g \in GaugeIds, raw_df \in NewTables, raises \in BOOLEAN, k \in AdjustScales :
          newCall' = correct_new_data(modelFiles, g, raw_df, raises, k)
    /\ cpc' = "served"
    /\ UNCHANGED <<cvVars, alignVars, updVars, cstations, quantiles_map, obsIn,
                   rawIn, ci, modelFiles, corFiles, corLog>>

\* a call of correct_new_data (web/build.py) for new raw data
CorrectNewDataWeb ==
    /\ cpc = "serve"
    /\ \E g \in GaugeIds, raw_df \in NewTables, raises \in BOOLEAN, k \in AdjustScales :
          newCall' = correct_new_data_web(modelFiles, g, raw_df, raises, k)
    /\ cpc' = "served"
    /\ UNCHANGED <<cvVars, alignVars, updVars, cstations, quantiles_map, obsIn,
                   rawIn, ci, modelFiles, corFiles, corLog>>

NextCorrect ==
    \/ CorrectStation
    \/ CorrectNewData
    \/ CorrectNewDataWeb

SpecCorrect == InitCorrect /\ [][NextCorrect]_vars

(* ---------------- get_missing_years (glofas/utils.py) -------------------- *)
\* the days of year y before its month m
RECURSIVE DaysBeforeMonth(_, _)
DaysBeforeMonth(y, m) ==
    IF m = 1 THEN 0 ELSE DaysBeforeMonth(y, m - 1) + DaysInMonth(y, m - 1)

\* date.toordinal(): the number of the day, counted from 0001-01-01
toordinal(d) ==
    LET y == d.year - 1
    IN y * 365 + (y \div 4) - (y \div 100) + (y \div 400)
         + DaysBeforeMonth(d.year, d.month) + d.day

\* (a - b).days
DaysBetween(a, b) == toordinal(a) - toordinal(b)

\* list(range(a, b))
Range(a, b) == [i \in 1..(b - a) |-> a + i - 1]

\* get_missing_years(last_data_date), with date.today() = tod
get_missing_years(last, tod) ==
    LET current_year == tod.year
        last_year == last.year
    IN IF last_year < current_year THEN Range(last_year + 1, current_year + 1)
       ELSE IF last_year = current_year /\ DaysBetween(tod, last) > 7
            THEN <<current_year>>
       ELSE <<>>

\* days of three years: the turn of the year, mid-year, and the last days of
\* December 7 and 8 days apart
SampleDates ==
    {Date(y, md[1], md[2]) :
        y \in 2024..2026,
        md \in {<<1, 1>>, <<1, 5>>, <<6, 30>>, <<12, 20>>, <<12, 27>>,
                <<12, 28>>, <<12, 31>>}}

InitYears ==
    /\ InitRun(<<>>, <<>>, {})
    /\ AlignOff
    /\ CorrOff
    /\ today \in SampleDates
    /\ last_data_date \in {d \in SampleDates : DateLE(d, today)}
    /\ missing_years = <<>>
    /\ upc = "years"
    /\ S3Off

\* a call get_missing_years(last_data_date) on the day `today`
GetMissingYears ==
    /\ upc = "years"
    /\ missing_years' = get_missing_years(last_data_date, today)
    /\ upc' = "returned"
    /\ UNCHANGED <<cvVars, alignVars, corrVars, today, last_data_date, s3Vars>>

NextYears ==
    \/ GetMissingYears

SpecYears == InitYears /\ [][NextYears]_vars

(* ------------- the incremental update of web/build.py main --------------- *)
\* GAUGE_IDS
GAUGE_IDS == SubSeq(DefaultStations, 1, MaxStations)

\* date.isoformat(): the year, month and day fields of the string
isoformat(d) == <<d.year, d.month, d.day>>

\* datetime.fromisoformat(s).date()
fromisoformat(str) == Date(str[1], str[2], str[3])

\* the metadata.json that update_s3_metadata writes
Metadata(ud) == [kind |-> "metadata", last_update |-> ud, gauges |-> GAUGE_IDS]

\* f"timeseries/update_date={update_date}/{gauge_id}.parquet"
object_key(ud, gauge_id) ==
    [prefix |-> "timeseries", update_date |-> ud, gauge_id |-> gauge_id]

DateLT(a, b) == DateLE(a, b) /\ a # b

\* the dates of a table
DatesOf(rows) == {rows[i].date : i \in 1..Len(rows)}

\* max() of a non-empty set of dates
MaxDate(ds) == CHOOSE d \in ds : \A e \in ds : DateLE(e, d)

\* get_last_data_date(bucket, s3_client)
get_last_data_date(meta, objects) ==
    IF meta.kind = "none" THEN Date(2024, 12, 31)
    ELSE LET keys == {object_key(meta.last_update, GAUGE_IDS[i]) :
                         i \in 1..Len(GAUGE_IDS)} \cap DOMAIN objects
             ds == UNION {DatesOf(objects[k]) : k \in keys}
         IN IF ds = {} THEN fromisoformat(meta.last_update) ELSE MaxDate(ds)

\* drop_duplicates(subset=["date"], keep="last")
DropDuplicatesLast(rows) ==
    LET keep == {i \in 1..Len(rows) :
                    \A j \in (i + 1)..Len(rows) : rows[j].date # rows[i].date}
        F[i \in 0..Len(rows)] ==
            IF i = 0 THEN <<>>
            ELSE IF i \in keep THEN Append(F[i - 1], rows[i]) ELSE F[i - 1]
    IN F[Len(rows)]

\* raw_df.merge(corrected_df, on="date", how="left") as [date, q_raw, q_cor]
LeftMerge(raw_rows, corrected) ==
    LET Matches(r) == SelectSeq(corrected, LAMBDA c : c.date = r.date)
        One(r) ==
            IF Matches(r) = <<>>
            THEN <<[date |-> r.date, q_raw |-> r.q_raw, q_cor |-> NaN]>>
            ELSE [k \in 1..Len(Matches(r)) |->
                     [date |-> r.date, q_raw |-> r.q_raw,
                      q_cor |-> Matches(r)[k].q_cor]]
        F[i \in 0..Len(raw_rows)] ==
            IF i = 0 THEN <<>> ELSE F[i - 1] \o One(raw_rows[i])
    IN F[Len(raw_rows)]

\* combined_df["update_date"] = update_date
WithUpdateDate(rows, ud) ==
    [k \in 1..Len(rows) |->
        [date |-> rows[k].date, q_raw |-> rows[k].q_raw, q_cor |-> rows[k].q_cor,
         update_date |-> ud]]

\* s3_client.upload_file(path, bucket, key)
PutObject(objects, key, rows) ==
    [k \in DOMAIN objects \cup {key} |-> IF k = key THEN rows ELSE objects[k]]

\* upload_incremental_to_s3: the objects of the bucket after the call;
\* outcome is "ok" or "error" (a call of the client raised)
upload_incremental_to_s3(meta, objects, gauge_id, new_data, ud, outcome) ==
    LET old_update_date == IF meta.kind = "none" THEN <<2025, 10, 1>>
                           ELSE meta.last_update
        old_key == object_key(old_update_date, gauge_id)
        old_df == objects[old_key]
        new_data_filtered ==
            IF old_df = <<>> THEN <<>>
            ELSE SelectSeq(new_data,
                           LAMBDA r : DateLT(MaxDate(DatesOf(old_df)), r.date))
        combined_df ==
            IF old_key \in DOMAIN objects
            THEN DropDuplicatesLast(SortByDate(old_df \o new_data_filtered))
            ELSE new_data
    IN IF outcome = "error" THEN objects
       ELSE IF old_key \in DOMAIN objects /\ new_data_filtered = <<>> THEN objects
       ELSE PutObject(objects, object_key(ud, gauge_id),
                      WithUpdateDate(combined_df, ud))

\* download_from_s3: the gauges of metadata.json whose object was downloaded
download_from_s3(meta, objects) ==
    IF meta.kind = "none" THEN <<>>
    ELSE SelectSeq(meta.gauges,
                   LAMBDA g : object_key(meta.last_update, g) \in DOMAIN objects)

\* the calendar day n days after a date
RECURSIVE AddDays(_, _)
AddDays(d, n) == IF n = 0 THEN d ELSE AddDays(DayAfter(d), n - 1)

\* the number of runs of main
MaxRuns == 2

\* the days between two runs
RunGaps == {3, 9}

\* the rows of the bucket's objects before the first run
SeedRows(ud) ==
    WithUpdateDate(<<[date |-> Date(2025, 9, 29), q_raw |-> 180, q_cor |-> 360],
                     [date |-> Date(2025, 9, 30), q_raw |-> 180, q_cor |-> 360]>>, ud)

\* the raw records GloFAS may hold for a gauge: none, the day after the last
\* date, today, or both
RawChoices(last, tod) ==
    LET r(d) == [datetime |-> Stamp(d, 1), q_raw |-> 180]
    IN {<<>>, <<r(DayAfter(last))>>, <<r(tod)>>}
       \cup (IF DateLT(DayAfter(last), tod)
             THEN {<<r(DayAfter(last)), r(tod)>>} ELSE {})

\* the first run of main: an empty bucket or one with an object per gauge
InitUpdate ==
    /\ InitRun(<<>>, <<>>, {})
    /\ AlignOff
    /\ cstations = <<>>
    /\ quantiles_map = <<>>
    /\ obsIn = <<>>
    /\ rawIn = <<>>
    /\ ci = 1
    /\ cpc = "off"
    /\ modelFiles \in
          {[x \in {model_path(GAUGE_IDS[i]) : i \in 1..Len(GAUGE_IDS)} |->
               IF x.stem = GAUGE_IDS[1] THEN first ELSE Dqm(x.stem, QUANTILES_MAP[x.stem])] :
             first \in {NoFile, Dqm(GAUGE_IDS[1], QUANTILES_MAP[GAUGE_IDS[1]])}}
    /\ corFiles = <<>>
    /\ corLog = <<>>
    /\ newCall = NoCall
    /\ today = Date(2025, 10, 10)
    /\ last_data_date = NoDate
    /\ missing_years = <<>>
    /\ upc = "start"
    /\ \/ s3meta = NoMetadata /\ s3objects = <<>>
       \/ /\ s3meta = Metadata(<<2025, 10, 1>>)
          /\ s3objects = [k \in {object_key(<<2025, 10, 1>>, GAUGE_IDS[i]) :
                                    i \in 1..Len(GAUGE_IDS)} |->
                             SeedRows(<<2025, 10, 1>>)]
    /\ new_raw_data = <<>>
    /\ update_date = <<>>
    /\ gi = 1
    /\ runs = 1
    /\ gauge_data = <<>>

\* main: last_data_date = get_last_data_date(bucket, s3_client)
GetLastDataDate ==
    /\ upc = "start"
    /\ last_data_date' = get_last_data_date(s3meta, s3objects)
    /\ upc' = "years"
    /\ UNCHANGED <<cvVars, alignVars, corrVars, today, missing_years, s3Vars>>

\* main: the download of the missing years and the extraction of the records
\* after last_data_date, gauge by gauge
Extract ==
    /\ upc = "returned"
    /\ IF missing_years = <<>>
       THEN /\ upc' = "build"
            /\ UNCHANGED <<new_raw_data, update_date>>
       ELSE \E f \in [{GAUGE_IDS[i] : i \in 1..Len(GAUGE_IDS)} ->
                         RawChoices(last_data_date, today)] :
              LET extracted(g) ==
                      SelectSeq(f[g], LAMBDA r :
                          /\ \E i \in 1..Len(missing_years) :
                                missing_years[i] = r.datetime.year
                          /\ DateLT(last_data_date, DateOf(r.datetime)))
                  found == {g \in DOMAIN f : extracted(g) # <<>>}
              IN /\ new_raw_data' = [g \in found |-> extracted(g)]
                 /\ IF found = {}
                    THEN upc' = "build" /\ UNCHANGED update_date
                    ELSE upc' = "loop" /\ update_date' = isoformat(today)
    /\ gi' = 1
    /\ UNCHANGED <<cvVars, alignVars, corrVars, today, last_data_date,
                   missing_years, s3meta, s3objects, runs, gauge_data>>

\* main: one pass of `for gauge_id in GAUGE_IDS`: correct_new_data and
\* upload_incremental_to_s3
ProcessGauge ==
    /\ upc = "loop"
    /\ gi <= Len(GAUGE_IDS)
    /\ LET gauge_id == GAUGE_IDS[gi]
       IN IF gauge_id \notin DOMAIN new_raw_data
          THEN UNCHANGED s3objects
          ELSE \E raises \in BOOLEAN, k \in AdjustScales, outcome \in {"ok", "error"} :
                 LET raw_df == new_raw_data[gauge_id]
                     corrected_df ==
                         correct_new_data_web(modelFiles, gauge_id, raw_df,
                                              raises, k).result
                     merged_df == LeftMerge(NewRows(raw_df), corrected_df)
                 IN IF corrected_df = <<>>
                    THEN UNCHANGED s3objects
                    ELSE s3objects' =
                            upload_incremental_to_s3(s3meta, s3objects, gauge_id,
                                                     merged_df, update_date, outcome)
    /\ gi' = gi + 1
    /\ UNCHANGED <<cvVars, alignVars, corrVars, today, last_data_date,
                   missing_years, upc, s3meta, new_raw_data, update_date, runs,
                   gauge_data>>

\* main: update_s3_metadata(bucket, s3_client, update_date) after the loop
UpdateMetadata ==
    /\ upc = "loop"
    /\ gi > Len(GAUGE_IDS)
    /\ s3meta' = Metadata(update_date)
    /\ upc' = "build"
    /\ UNCHANGED <<cvVars, alignVars, corrVars, today, last_data_date,
                   missing_years, s3objects, new_raw_data, update_date, gi, runs,
                   gauge_data>>

\* main: s3_data = download_from_s3(bucket, s3_client)
DownloadFromS3 ==
    /\ upc = "build"
    /\ gauge_data' = download_from_s3(s3meta, s3objects)
    /\ upc' = "done"
    /\ UNCHANGED <<cvVars, alignVars, corrVars, today, last_data_date,
                   missing_years, s3meta, s3objects, new_raw_data, update_date,
                   gi, runs>>

\* the next run of main, some days later
NextRun ==
    /\ upc = "done"
    /\ runs < MaxRuns
    /\ \E gap \in RunGaps : today' = AddDays(today, gap)
    /\ runs' = runs + 1
    /\ upc' = "start"
    /\ new_raw_data' = <<>>
    /\ update_date' = <<>>
    /\ gi' = 1
    /\ UNCHANGED <<cvVars, alignVars, corrVars, last_data_date, missing_years,
                   s3meta, s3objects, gauge_data>>

NextUpdate ==
    \/ GetLastDataDate
    \/ GetMissingYears
    \/ Extract
    \/ ProcessGauge
    \/ UpdateMetadata
    \/ DownloadFromS3
    \/ NextRun

SpecUpdate == InitUpdate /\ [][NextUpdate]_vars

(* ------------------------------ properties ------------------------------- *)
\* rows of year y in a series
RowsIn(d, y) == RowCount(SelectSeq(d, LAMBDA g : g.year = y))

\* the years with more than 90 rows
ValidYearSet(d) == {y \in YearsIn(d) : RowsIn(d, y) > 90}

\* pairs with both values positive
Surviving(pairs) == RowCount(SelectSeq(pairs, LAMBDA p : p.obs > 0 /\ p.sim > 0))

\* the call of task t got past loocv_splits
HasSplit(t) ==
    \/ pc[t] \in {"folds", "write"}
    \/ pc[t] = "returned" /\ ret[t].kind # "No Data"

FoldsTesting(t, y) == {i \in 1..Len(splits[t]) : splits[t][i].test_year = y}

TrainAvoidsTestYear(t) ==
    \A i \in 1..Len(splits[t]) : \A k \in 1..Len(splits[t][i].train) :
        splits[t][i].train[k].year # splits[t][i].test_year

HasRow(t, type, nq, y) ==
    \E k \in 1..Len(results[t]) :
        /\ results[t][k].type = type
        /\ results[t][k].test_year = y
        /\ type = "DQM" => results[t][k].nq = nq

CountRows(t, type) ==
    Cardinality({k \in 1..Len(results[t]) : results[t][k].type = type})

\* C1 as stated: in every fold no train row has the test year, and every year
\* with more than 90 rows is the test year of exactly one fold.
C1_EveryValidYearTestedOnce ==
    \A t \in Tasks : HasSplit(t) =>
        /\ TrainAvoidsTestYear(t)
        /\ \A y \in ValidYearSet(data[t]) : Cardinality(FoldsTesting(t, y)) = 1

\* C1 amended: in every fold no train row has the test year, and when at least
\* two years are valid every valid year is the test year of exactly one fold.
C1_FoldsDisjoint ==
    \A t \in Tasks : HasSplit(t) =>
        /\ TrainAvoidsTestYear(t)
        /\ Cardinality(ValidYearSet(data[t])) >= 2 =>
              \A y \in ValidYearSet(data[t]) : Cardinality(FoldsTesting(t, y)) = 1

C1_Witness ==
    \E t \in Tasks : HasSplit(t) /\ Len(splits[t]) >= 3

\* C2: every train call of process_station is given exactly the rows of the
\* other valid years (no row of the held-out year, none of a year that failed
\* the threshold), and adjust is given the rows of the held-out year.
C2_NoLeakage ==
    \A t \in Tasks : \A k \in 1..Len(trainLog[t]) :
        LET c == trainLog[t][k]
            others == ValidYearSet(data[t]) \ {c.test_year}
        IN /\ c.test_year \in ValidYearSet(data[t])
           /\ c.train = SelectSeq(data[t], LAMBDA g : g.year \in others)
           /\ c.target = SelectSeq(data[t], LAMBDA g : g.year = c.test_year)
           /\ \A j \in 1..Len(c.train) :
                 c.train[j].year # c.test_year /\ RowsIn(data[t], c.train[j].year) > 90

C2_Witness ==
    \E t \in Tasks :
        /\ pc[t] = "returned"
        /\ Len(trainLog[t]) >= 2 * Len(quantiles_list)
        /\ \E y \in YearsIn(data[t]) : RowsIn(data[t], y) <= 90

\* C3: every fold has a non-empty train and a non-empty test subset, its test
\* year has more than 90 rows, and so has the year of every train row.
C3_Coverage ==
    \A t \in Tasks : HasSplit(t) =>
        \A i \in 1..Len(splits[t]) :
            LET f == splits[t][i]
            IN /\ RowCount(f.train) > 0
               /\ RowCount(f.test) > 0
               /\ RowsIn(data[t], f.test_year) > 90
               /\ \A k \in 1..Len(f.train) : RowsIn(data[t], f.train[k].year) > 90

C3_Witness ==
    \E t \in Tasks :
        /\ HasSplit(t)
        /\ Len(splits[t]) >= 2
        /\ \E y \in YearsIn(data[t]) : RowsIn(data[t], y) = 90

\* C4: the fold list is empty exactly when fewer than 2 years have more than
\* 90 rows.
C4_EmptyIffFewerThanTwo ==
    \A t \in Tasks : HasSplit(t) =>
        (splits[t] = <<>> <=> Cardinality(ValidYearSet(data[t])) < 2)

C4_Witness ==
    \E t \in Tasks :
        /\ HasSplit(t)
        /\ splits[t] = <<>>
        /\ Cardinality(ValidYearSet(data[t])) = 1

\* the pairs process_station may hand to calculate_metrics for a fold
MetricInputs(f) ==
    {Pairs(f.test)} \cup
    {Adjusted(f.test, o.keep) : o \in {x \in CellOutcomes(f.test) : ~x.exc}}

\* C5: calculate_metrics returns None when fewer than 10 pairs pass the
\* positivity mask and a metrics record when 10 or more do; a processed fold
\* has its Raw row exactly when 10 or more of its test pairs pass the mask.
C5_MetricGuard ==
    \A t \in Tasks : HasSplit(t) =>
        \A i \in 1..Len(splits[t]) :
            /\ \A P \in MetricInputs(splits[t][i]) :
                  /\ Surviving(P) < 10 => calculate_metrics(P) = None
                  /\ Surviving(P) >= 10 => calculate_metrics(P).kind = "metrics"
            /\ i < fi[t] =>
                  (HasRow(t, "Raw", "raw", splits[t][i].test_year)
                     <=> Surviving(Pairs(splits[t][i].test)) >= 10)

C5_Witness ==
    \E t \in Tasks : \E i \in 1..Len(splits[t]) :
        /\ i < fi[t]
        /\ Surviving(Pairs(splits[t][i].test)) = 9
        /\ ~HasRow(t, "Raw", "raw", splits[t][i].test_year)
        /\ \E j \in 1..Len(splits[t]) : \E P \in MetricInputs(splits[t][j]) :
              Surviving(P) = 10

NumCells == Len(quantiles_list)

\* the cells of the folds processed so far were all attempted, in order
AllCellsAttempted(t) ==
    /\ Len(trainLog[t]) = (fi[t] - 1) * NumCells
    /\ \A j \in 1..(fi[t] - 1) : \A q \in 1..NumCells :
          LET c == trainLog[t][(j - 1) * NumCells + q]
          IN c.test_year = splits[t][j].test_year /\ c.nq = quantiles_list[q]

\* a step of task t that processes a fold keeps the rows collected before it,
\* adds the fold's Raw row when its metrics are available, adds no row for a
\* cell that raised, and goes on to the next fold when there is one
FoldStepIsolated(t) ==
    fi'[t] # fi[t] =>
        LET f == splits[t][fi[t]]
            old == Len(results[t])
        IN /\ Len(results'[t]) >= old
           /\ SubSeq(results'[t], 1, old) = results[t]
           /\ Surviving(Pairs(f.test)) >= 10 =>
                 /\ Len(results'[t]) > old
                 /\ results'[t][old + 1].type = "Raw"
                 /\ results'[t][old + 1].test_year = f.test_year
           /\ \A q \in 1..NumCells : lastExc'[t][q] =>
                 ~\E k \in (old + 1)..Len(results'[t]) :
                      /\ results'[t][k].type = "DQM"
                      /\ results'[t][k].nq = quantiles_list[q]
           /\ Len(results'[t]) - old <= 1 + Cardinality({q \in 1..NumCells : ~lastExc'[t][q]})
           /\ pc'[t] = IF fi[t] < Len(splits[t]) THEN "folds" ELSE "write"

\* C6: a cell that raises is the only thing lost: every cell of every fold is
\* attempted, rows already collected are kept, the Raw row of the fold stays,
\* and the loop goes on to the next fold.
C6_CellFailureIsolated ==
    /\ [](\A t \in Tasks : AllCellsAttempted(t))
    /\ [][\A t \in Tasks : FoldStepIsolated(t)]_vars

C6_Witness ==
    \E t \in Tasks :
        /\ pc[t] = "returned"
        /\ Len(splits[t]) >= 2
        /\ lastExc[t][1] /\ ~lastExc[t][NumCells]
        /\ Len(trainLog[t]) = Len(splits[t]) * NumCells
        /\ HasRow(t, "Raw", "raw", splits[t][Len(splits[t])].test_year)
        /\ HasRow(t, "DQM", quantiles_list[NumCells], splits[t][Len(splits[t])].test_year)
        /\ ~HasRow(t, "DQM", quantiles_list[1], splits[t][Len(splits[t])].test_year)

\* C7 as stated: N Raw rows when every fold's test subset has 10 or more valid
\* pairs, at most N x K DQM rows, exactly N x K when no cell raised.
C7_GridCompleteness ==
    \A t \in Tasks : (pc[t] = "returned" /\ ret[t].kind \in {"rows", "No Results"}) =>
        LET N == Len(splits[t])
        IN /\ (\A i \in 1..N : Surviving(Pairs(splits[t][i].test)) >= 10)
                 => CountRows(t, "Raw") = N
           /\ CountRows(t, "DQM") <= N * NumCells
           /\ ~caught[t] => CountRows(t, "DQM") = N * NumCells

\* C8 as stated: process_station never raises and returns a row count,
\* "No Data" or "Insufficient Data".
C8_TriState ==
    \A t \in Tasks :
        /\ pc[t] # "raised"
        /\ pc[t] = "returned" => ret[t].kind \in {"rows", "No Data", "Insufficient Data"}

\* C8 amended: a returned status is the row count (at least 1, the rows
\* written), "No Data", "Insufficient Data", or "No Results" when folds exist
\* and no row was collected; the call raises when the input tables are missing.
C8_FourStatuses ==
    \A t \in Tasks :
        /\ pc[t] = "returned" =>
              /\ ret[t].kind \in {"rows", "No Data", "Insufficient Data", "No Results"}
              /\ ret[t].kind = "rows" =>
                    /\ ret[t].n = Len(results[t]) /\ ret[t].n >= 1
                    /\ outFiles[stations[t]] = <<results[t]>>
              /\ ret[t].kind = "No Results" =>
                    /\ splits[t] # <<>> /\ results[t] = <<>>
                    /\ outFiles[stations[t]] = <<>>
        /\ pc[t] = "raised" <=>
              (pc[t] \notin {"new", "queued", "read"} /\ ~exists[stations[t]])
        /\ pc[t] # "returned" => ret[t] = NoReturn

C8_Witness ==
    \E t \in Tasks :
        /\ pc[t] = "returned"
        /\ ret[t].kind = "No Results"
        /\ Len(trainLog[t]) = Len(splits[t]) * NumCells

\* C9: "No Data" is returned exactly for an empty aligned series and
\* "Insufficient Data" exactly for a non-empty one with fewer than 2 valid
\* years; then no fold was processed, no model trained, no row collected and
\* no results file written.
C9_DataAbsence ==
    \A t \in Tasks : pc[t] = "returned" =>
        /\ ret[t].kind = "No Data" <=> RowCount(data[t]) = 0
        /\ ret[t].kind = "Insufficient Data" <=>
              (RowCount(data[t]) > 0 /\ Cardinality(ValidYearSet(data[t])) < 2)
        /\ ret[t].kind \in {"No Data", "Insufficient Data"} =>
              /\ fi[t] = 1
              /\ trainLog[t] = <<>>
              /\ results[t] = <<>>
              /\ outFiles[stations[t]] = <<>>

C9_Witness ==
    \E t \in Tasks :
        /\ pc[t] = "returned"
        /\ ret[t].kind = "Insufficient Data"
        /\ RowCount(tables[stations[t]]) > RowCount(data[t])
        /\ RowCount(data[t]) > 90

\* what the tables of a gauge alone make of its call
OwnOutcome(t) ==
    IF ~exists[stations[t]] THEN "raised"
    ELSE LET d == read_station_data(tables[stations[t]])
         IN IF RowCount(d) = 0 THEN "No Data"
            ELSE IF Cardinality(ValidYearSet(d)) < 2 THEN "Insufficient Data"
            ELSE "folds"

Settled(t) ==
    /\ Len(printed[t]) = 1
    /\ CASE OwnOutcome(t) = "raised" -> pc[t] = "raised" /\ printed[t][1] = "exception"
         [] OwnOutcome(t) = "folds" ->
               /\ pc[t] = "returned" /\ ret[t].kind \in {"rows", "No Results"}
               /\ printed[t][1] = "completed"
         [] OTHER ->
               /\ pc[t] = "returned" /\ ret[t].kind = OwnOutcome(t)
               /\ printed[t][1] = "completed"

\* C10: no gauge is reported twice, and the run ends with every gauge reported
\* once with the outcome its own tables give, whatever the other gauges did.
C10_GaugesIndependent ==
    /\ [](\A t \in Tasks : Len(printed[t]) <= 1)
    /\ <>[](mainpc = "done" /\ \A t \in Tasks : Settled(t))

C10_Witness ==
    /\ mainpc = "done"
    /\ \E t, u \in Tasks :
          /\ t < u
          /\ pc[t] = "raised"
          /\ ret[u].kind = "rows"

\* the step of task t that writes the results file of gauge s
WritesFile(t, s) ==
    /\ stations[t] = s
    /\ pc[t] = "write"
    /\ pc'[t] = "returned"
    /\ fi[t] = Len(splits[t]) + 1
    /\ Len(trainLog[t]) = Len(splits[t]) * NumCells
    /\ Len(outFiles[s]) = 0
    /\ outFiles'[s] = <<results[t]>>
    /\ \A u \in Tasks \ {t} : stations[u] # s

\* C11: a gauge's results file is written at most once, by the one worker of
\* that gauge, in the step after its last fold and last quantile count, with
\* the rows the worker accumulated; a fold step touches no file.
C11_SingleWriter ==
    /\ [](\A s \in StationIds : Len(outFiles[s]) <= 1)
    /\ [][\A s \in StationIds :
            Len(outFiles'[s]) # Len(outFiles[s]) => \E t \in Tasks : WritesFile(t, s)]_vars
    /\ [][(\E t \in Tasks : Len(results'[t]) # Len(results[t]))
            => \A s \in StationIds : Len(outFiles'[s]) = Len(outFiles[s])]_vars

C11_Witness ==
    /\ \A s \in StationIds : Len(outFiles[s]) = 1
    /\ \E t, u \in Tasks : t # u /\ Len(splits[t]) >= 2 /\ Len(results[u]) >= 2

\* C18 as stated: every observed and simulated value handed to train or adjust
\* is strictly positive.
C18_PositiveInputs ==
    \A t \in Tasks : \A k \in 1..Len(trainLog[t]) :
        /\ \A j \in 1..Len(trainLog[t][k].train) :
              trainLog[t][k].train[j].obs > 0 /\ trainLog[t][k].train[j].sim > 0
        /\ \A j \in 1..Len(trainLog[t][k].target) : trainLog[t][k].target[j].sim > 0

\* C19 as stated: every processed fold has its Raw row, and every quantile
\* count of the fold whose cell did not raise has its DQM row.
C19_CellsCarried ==
    \A t \in Tasks : \A i \in 1..Len(splits[t]) :
        i < fi[t] =>
            /\ HasRow(t, "Raw", "raw", splits[t][i].test_year)
            /\ i = fi[t] - 1 =>
                  \A q \in 1..Len(lastExc[t]) :
                      ~lastExc[t][q] =>
                          HasRow(t, "DQM", quantiles_list[q], splits[t][i].test_year)

\* the dates the tables of the call speak of
DatesSeen ==
    {obs_df[k].date : k \in 1..Len(obs_df)}
    \cup {DateOf(sim_df[k].datetime) : k \in 1..Len(sim_df)}
    \cup {DayBefore(DateOf(sim_df[k].datetime)) : k \in 1..Len(sim_df)}

\* the observed table has a value on d
ObsOn(d) == \E k \in 1..Len(obs_df) : obs_df[k].date = d /\ obs_df[k].q_cms # NaN

\* the simulated table has a value stamped on calendar day d
SimOn(d) ==
    \E k \in 1..Len(sim_df) : DateOf(sim_df[k].datetime) = d /\ sim_df[k].q_raw # NaN

RecordsOn(d) == {k \in 1..Len(aligned) : aligned[k].date = d}

\* C15: every record of the aligned series lies on a date D with an observed
\* value on D and a simulated value stamped on day D+1, and every such date
\* of May-September 1979-1996 has a record.
C15_AlignedIffBothPresent ==
    apc = "returned" =>
        /\ \A k \in 1..Len(aligned) :
              ObsOn(aligned[k].date) /\ SimOn(DayAfter(aligned[k].date))
        /\ \A d \in DatesSeen :
              (d.year \in YearStart..YearEnd /\ d.month \in 5..9) =>
                  (RecordsOn(d) # {} <=> ObsOn(d) /\ SimOn(DayAfter(d)))

C15_Witness ==
    /\ apc = "returned"
    /\ \E d \in DatesSeen : RecordsOn(d) # {}
    /\ \E d \in DatesSeen :
          /\ d.year \in YearStart..YearEnd /\ d.month \in 5..9
          /\ d.day = DaysInMonth(d.year, d.month)
          /\ ObsOn(d) /\ SimOn(d) /\ RecordsOn(d) = {}
          /\ \E k \in 1..Len(sim_df) :
                DateOf(sim_df[k].datetime) = DayAfter(d) /\ sim_df[k].q_raw = NaN

\* C16 as stated: the aligned series has at most one record per date.
C16_OneRecordPerDate ==
    \A d \in DatesSeen : Cardinality(RecordsOn(d)) <= 1

\* C17 as stated: every record of the aligned series has its year in
\* 1979..1996 and its month in May-September.
C17_SeasonWindow ==
    \A k \in 1..Len(aligned) :
        /\ aligned[k].year \in YearStart..YearEnd
        /\ aligned[k].month \in 5..9

CorrectedStations == {cstations[i] : i \in 1..Len(cstations)}

\* every row of the written table `out` dated outside the correction season
\* holds the raw value of its date in `raw`, clamped at zero
PassThrough(out, raw) ==
    \A k \in 1..Len(out) :
        out[k].date.month \notin correction_months =>
            \E j \in 1..Len(raw) :
                /\ DayBefore(DateOf(raw[j].datetime)) = out[k].date
                /\ out[k].q_cor = Maximum0(raw[j].q_raw)

\* no row handed to adjust is dated outside the correction season
AdjustInSeasonOnly(rows) ==
    \A k \in 1..Len(rows) : rows[k].date.month \in correction_months

\* C12 as stated: in every corrected series (correct_station, correct_new_data
\* of process.py and of web/build.py) a record outside May-September holds its
\* raw value clamped at zero, and the model is not applied to it.
C12_OffSeasonPassThrough ==
    /\ \A s \in CorrectedStations :
          /\ \A i \in 1..Len(corFiles[s]) : PassThrough(corFiles[s][i], rawIn[s])
          /\ \A i \in 1..Len(corLog[s]) : AdjustInSeasonOnly(corLog[s][i].target)
    /\ newCall.kind = "call" =>
          /\ PassThrough(newCall.result, newCall.raw_df)
          /\ AdjustInSeasonOnly(newCall.applied)

\* C13 as stated: every q_cor written by correct_station or returned by
\* correct_new_data (process.py) is non-negative.
C13_NonNegative ==
    /\ \A s \in CorrectedStations : \A i \in 1..Len(corFiles[s]) :
          \A k \in 1..Len(corFiles[s][i]) : corFiles[s][i][k].q_cor >= 0
    /\ (newCall.kind = "call" /\ newCall.variant = "process") =>
          \A k \in 1..Len(newCall.result) : newCall.result[k].q_cor >= 0

\* correct_station saved a model for station s
SavedFor(s) ==
    /\ s \in CorrectedStations
    /\ \E i \in 1..Len(corLog[s]) : corLog[s][i].save = "ok"

\* no call of save_dqm_model opened a model file for gauge g
NoFileFor(g) ==
    \/ g \notin CorrectedStations
    \/ \A i \in 1..Len(corLog[g]) : corLog[g][i].save \in {"none", "open"}

\* C14: a call of correct_new_data that gets a model for a gauge gets the one
\* correct_station trained and saved for that gauge, a gauge with a saved
\* model gets it, and a gauge with no model file gets FileNotFoundError and
\* an empty result.
C14_ModelRoundTrip ==
    (newCall.kind = "call" /\ newCall.load.kind # "notloaded") =>
        LET g == newCall.gauge_id
        IN /\ newCall.load.kind = "dqm" =>
                 /\ SavedFor(g)
                 /\ newCall.load = Dqm(g, quantiles_map[g])
           /\ SavedFor(g) => newCall.load.kind = "dqm"
           /\ NoFileFor(g) =>
                 /\ newCall.load.kind = "FileNotFoundError"
                 /\ newCall.result = <<>>

C14_Witness ==
    /\ newCall.kind = "call"
    /\ newCall.load.kind = "dqm"
    /\ newCall.gauge_id = cstations[Len(cstations)]
    /\ newCall.result # <<>>
    /\ SavedFor(cstations[1])

\* C20 as stated: every record of the training set of correct_station lies in
\* a month of the correction season.
C20_TrainInSeasonOnly ==
    \A s \in CorrectedStations : \A i \in 1..Len(corLog[s]) :
        \A k \in 1..Len(corLog[s][i].train) :
            corLog[s][i].train[k].month \in correction_months

RECURSIVE IsSubSeq(_, _)
IsSubSeq(kept, P) ==
    IF kept = <<>> THEN TRUE
    ELSE IF P = <<>> THEN FALSE
    ELSE IF Head(kept) = Head(P) THEN IsSubSeq(Tail(kept), Tail(P))
    ELSE IsSubSeq(kept, Tail(P))

\* C24: the pairs calculate_metrics computes its metrics on are pairs of its
\* input, each with obs > 0 and sim > 0, in the input's order, and they are
\* all the pairs of the input that have both values positive.
C24_MetricsOnMaskedPairs ==
    \A t \in Tasks : HasSplit(t) =>
        \A i \in 1..Len(splits[t]) : \A P \in MetricInputs(splits[t][i]) :
            LET m == calculate_metrics(P)
            IN m.kind = "metrics" =>
                  /\ \A k \in 1..Len(m.pairs) : m.pairs[k].obs > 0 /\ m.pairs[k].sim > 0
                  /\ IsSubSeq(m.pairs, P)
                  /\ RowCount(m.pairs) = Surviving(P)

C24_Witness ==
    \E t \in Tasks : \E i \in 1..Len(splits[t]) :
        /\ i < fi[t]
        /\ HasRow(t, "DQM", quantiles_list[1], splits[t][i].test_year)
        /\ \E P \in MetricInputs(splits[t][i]) :
              /\ calculate_metrics(P).kind = "metrics"
              /\ \E k \in 1..Len(P) : P[k].obs > 0 /\ P[k].sim <= 0

\* C25: a row of the results is tagged "Raw" with quantile count "raw" or
\* "DQM" with a quantile count of the candidate list, its test year is a valid
\* year, and no two rows share test year, type and quantile count.
C25_RowTags ==
    \A t \in Tasks :
        /\ \A k \in 1..Len(results[t]) :
              LET r == results[t][k]
              IN /\ r.type \in {"Raw", "DQM"}
                 /\ IF r.type = "Raw" THEN r.nq = "raw"
                    ELSE \E q \in 1..Len(quantiles_list) : quantiles_list[q] = r.nq
                 /\ r.test_year \in ValidYearSet(data[t])
        /\ \A k, j \in 1..Len(results[t]) :
              (k < j /\ results[t][k].type = results[t][j].type
                     /\ results[t][k].test_year = results[t][j].test_year)
                 => results[t][k].nq # results[t][j].nq

C25_Witness ==
    \E t \in Tasks :
        /\ pc[t] = "returned"
        /\ CountRows(t, "Raw") >= 2
        /\ CountRows(t, "DQM") >= 2 * Len(quantiles_list)
        /\ Len(quantiles_list) >= 2

\* the table `out` has exactly one row per record of the raw table `raw`,
\* on the record's date moved one day back, in ascending order of date
OneRowPerRecord(out, raw) ==
    /\ Len(out) = Len(raw)
    /\ \A j \in 1..Len(raw) :
          \E k \in 1..Len(out) : out[k].date = DayBefore(DateOf(raw[j].datetime))
    /\ \A k \in 1..Len(out) :
          \E j \in 1..Len(raw) : out[k].date = DayBefore(DateOf(raw[j].datetime))
    /\ \A k \in 1..(Len(out) - 1) :
          DateLE(out[k].date, out[k + 1].date) /\ out[k].date # out[k + 1].date

\* every in-season row of `out` holds the raw value of its date
InSeasonRaw(out, raw) ==
    \A k \in 1..Len(out) :
        out[k].date.month \in correction_months =>
            \E j \in 1..Len(raw) :
                /\ DayBefore(DateOf(raw[j].datetime)) = out[k].date
                /\ out[k].q_cor = raw[j].q_raw

\* every in-season row of `out` holds its raw value as adjusted by one factor
InSeasonAdjusted(out, raw) ==
    \E sc \in AdjustScales : \A k \in 1..Len(out) :
        out[k].date.month \in correction_months =>
            \E j \in 1..Len(raw) :
                /\ DayBefore(DateOf(raw[j].datetime)) = out[k].date
                /\ out[k].q_cor = Maximum0(sc * (raw[j].q_raw + Epsilon) - Epsilon)

\* the loop of correct_all_stations went through every station, and each
\* station with a quantile count and training data has its file
AllStationsProcessed ==
    cpc \in {"serve", "served"} =>
        /\ ci = Len(cstations) + 1
        /\ \A s \in CorrectedStations :
              (s \in DOMAIN quantiles_map
                 /\ Len(read_station_data_cv(obsIn[s], rawIn[s])) > 0)
                => Len(corFiles[s]) = 1

C30_AllOrNothing ==
    newCall.kind = "call" =>
        /\ newCall.result = <<>> \/ OneRowPerRecord(newCall.result, newCall.raw_df)
        /\ (Len(newCall.raw_df) > 0 /\ InSeason(NewRows(newCall.raw_df)) = <<>>) =>
              /\ newCall.load = NotLoaded
              /\ OneRowPerRecord(newCall.result, newCall.raw_df)

\* C28 as stated: get_missing_years returns an empty list when the last date
\* is in the current year and at most 7 days old, and otherwise the year of
\* every day after the last date up to today.
C28_YearsCoverEveryDay ==
    upc = "returned" =>
        IF last_data_date.year = today.year /\ DaysBetween(today, last_data_date) <= 7
        THEN missing_years = <<>>
        ELSE \A y \in DayAfter(last_data_date).year .. today.year :
                \E i \in 1..Len(missing_years) : missing_years[i] = y

\* C26 as stated: every gauge listed in metadata.json has a parquet object
\* under the update date that metadata.json records.
C26_MetadataGaugesHaveObjects ==
    s3meta.kind = "metadata" =>
        \A i \in 1..Len(s3meta.gauges) :
            object_key(s3meta.last_update, s3meta.gauges[i]) \in DOMAIN s3objects

\* C27 as stated: of two parquet objects of a gauge, the later one holds every
\* date of the earlier one with the same values, adds only records dated
\* after the earlier one's last date, and holds each date once.
C27_AppendOnly ==
    \A k1, k2 \in DOMAIN s3objects :
        (k1.gauge_id = k2.gauge_id
           /\ DateLT(fromisoformat(k1.update_date), fromisoformat(k2.update_date))) =>
            LET old == s3objects[k1]
                new == s3objects[k2]
            IN /\ \A i \in 1..Len(old) : \E j \in 1..Len(new) :
                     /\ new[j].date = old[i].date
                     /\ new[j].q_raw = old[i].q_raw
                     /\ new[j].q_cor = old[i].q_cor
               /\ \A j \in 1..Len(new) :
                     \/ new[j].date \in DatesOf(old)
                     \/ \A d \in DatesOf(old) : DateLT(d, new[j].date)
               /\ \A i, j \in 1..Len(new) : new[i].date = new[j].date => i = j

=============================================================================
